---- MODULE Spec2Model ----
(***************************************************************************)
(* Model of the feed reader build (src/unnamed/part_001) and of the part   *)
(* of the page template (src/src/template.js) that is evaluated on the     *)
(* build's result.                                                         *)
(*                                                                         *)
(* Dates are naturals (a larger number is a later instant); 0 stands for   *)
(* an absent field.  Texts that the build takes apart (links, headers) are *)
(* sequences of tokens.  The engine that runs the build is Node 20.9.0     *)
(* (src/unnamed/part_000, line 19), so Array.prototype.sort is the         *)
(* engine's binary insertion sort for arrays shorter than 64 elements,     *)
(* which is the regime the bounds below cover.                             *)
(***************************************************************************)
EXTENDS Integers, Sequences, FiniteSets, TLC

VARIABLES
    argv,           \* the flags on the command line: [write, cached]
    config,         \* src/config.json as read: [hasRedirects, redirects]
    feedsFile,      \* src/feeds.json: a sequence of groups of URLs
    cacheFile,      \* src/cache.json: [exists, groups, allItems]
    outfile,        \* whether this run wrote output/index.html
    allItems, errors, groupContents,    \* the locals of build
    pc,             \* where build stands
    groupIdx,       \* the position of the for-in loop over feeds
    results,        \* the fetches of the current group: pending or settled
    resultIdx,      \* the position of the loop over results
    handed,         \* what template was called with, once it was
    world,          \* per URL id, what the network answered in this run
    history,        \* per finished hand-over, the run's mode and what it handed
    io              \* what this run has called: fetch per URL id, the fetches
                    \* in flight, the reads and the writes of the cache file

vars == <<argv, config, feedsFile, cacheFile, outfile, allItems, errors,
          groupContents, pc, groupIdx, results, resultIdx, handed, world,
          history, io>>

(***************************************************************************)
(* Bounds of the model.                                                    *)
(***************************************************************************)
MaxGroups == 2
MaxSources == 3
MaxTotalSources == 3
MaxItems == 2
MaxDate == 2
MaxRuns == 2
MaxLiveRuns == 1
TitleLen == 20
LongTitleLen == 150

(***************************************************************************)
(* Links are texts, modelled as sequences of tokens: the scheme, host      *)
(* labels separated by ".", then "/" and "?" with path and query tokens.   *)
(* The empty sequence is an absent (undefined) link field.                 *)
(***************************************************************************)
Scheme == "https://"

NoLink == << >>

ExampleSite == <<Scheme, "www", ".", "example", ".", "com">>

RedditSite == <<Scheme, "www", ".", "reddit", ".", "com">>

OldRedditHost == <<"old", ".", "reddit", ".", "com">>

ConstructorSite == <<Scheme, "www", ".", "constructor", ".", "io">>

PostPath == <<"/", "post">>

SortQuery == <<"?", "sort=new">>

(***************************************************************************)
(* Sources.  A URL is identified by a number; ext tells whether its text   *)
(* ends in .rss, .xml or .rdf (line 31).                                   *)
(***************************************************************************)
Url(n, e) == [id |-> n, ext |-> e]

NoUrl == Url(0, FALSE)

isRSSExtension(url) == url.ext

(***************************************************************************)
(* Items and feeds as rss-parser hands them to build.  isoDate and pubDate *)
(* name the same instant; date and published are the other two fields that *)
(* line 101 reads.  timestamp is -1 while the field is unset, 0 for the    *)
(* text "Invalid Date", else the date.                                     *)
(* content is the sequence of the href values of the anchors in the item's *)
(* markup.  title is the length of the title text, 0 when absent.          *)
(***************************************************************************)
RawItem(u, k, d, l) ==
    [src |-> u, n |-> k, isoDate |-> d, pubDate |-> d, date |-> 0,
     published |-> 0, link |-> l,
     contentSnippet |-> "plain", content |-> << >>,
     timestamp |-> -1, comments |-> NoLink]

\* items whose only date field is date, or published
DateItem(u, k, d, l) == [RawItem(u, k, 0, l) EXCEPT !.date = d]

PublishedItem(u, k, d, l) == [RawItem(u, k, 0, l) EXCEPT !.published = d]

RedditItem(u, k, d, anchors) ==
    [src |-> u, n |-> k, isoDate |-> d, pubDate |-> d, date |-> 0,
     published |-> 0,
     link |-> RedditSite \o <<"/", "r">>,
     contentSnippet |-> "submitted by", content |-> anchors,
     timestamp |-> -1, comments |-> NoLink]

RawFeed(t, l, fu, its) ==
    [feed |-> NoUrl, title |-> t, link |-> l, feedUrl |-> fu, items |-> its]

(***************************************************************************)
(* parseDate and byDateSort (lines 171-183).  new Date of a present field  *)
(* is an object, hence truthy; the difference of two dates is their        *)
(* distance in time.                                                       *)
(***************************************************************************)
Undefined == 0

parseDate(item) == IF item.isoDate # 0 THEN item.isoDate ELSE item.pubDate

byDateSort(aDate, bDate) ==
    IF aDate = Undefined \/ bDate = Undefined THEN 0 ELSE bDate - aDate

(***************************************************************************)
(* Array.prototype.sort of the engine, for one run of fewer than 64        *)
(* elements: the leading run is counted (and reversed when strictly        *)
(* descending), then the rest is inserted by binary search.  The work      *)
(* array holds <<date, original position>> pairs; positions in the         *)
(* helpers count from 0 as in the engine.                                  *)
(***************************************************************************)
RECURSIVE CountRun(_, _, _)
CountRun(w, idx, isDescending) ==
    IF idx > Len(w) THEN idx - 1
    ELSE LET order == byDateSort(w[idx][1], w[idx - 1][1])
         IN  IF isDescending
             THEN IF order >= 0 THEN idx - 1 ELSE CountRun(w, idx + 1, isDescending)
             ELSE IF order < 0 THEN idx - 1 ELSE CountRun(w, idx + 1, isDescending)

ReverseRange(w, n) ==
    [i \in 1..Len(w) |-> IF i <= n THEN w[n + 1 - i] ELSE w[i]]

CountAndMakeRun(w) ==
    LET isDescending == byDateSort(w[2][1], w[1][1]) < 0
        runLength == CountRun(w, 3, isDescending)
    IN  [run |-> runLength,
         work |-> IF isDescending THEN ReverseRange(w, runLength) ELSE w]

\* a search that places the pivot before the elements it compares equal to
RECURSIVE BinarySearch_Unstable(_, _, _, _)
BinarySearch_Unstable(w, pivot, left, right) ==
    IF left >= right THEN left
    ELSE LET mid == left + ((right - left) \div 2)
             order == byDateSort(pivot[1], w[mid + 1][1])
         IN  IF order <= 0
             THEN BinarySearch_Unstable(w, pivot, left, mid)
             ELSE BinarySearch_Unstable(w, pivot, mid + 1, right)

RECURSIVE BinarySearch(_, _, _, _)
BinarySearch(w, pivot, left, right) ==
    IF left >= right THEN left
    ELSE LET mid == left + ((right - left) \div 2)
             order == byDateSort(pivot[1], w[mid + 1][1])
         IN  IF order < 0
             THEN BinarySearch(w, pivot, left, mid)
             ELSE BinarySearch(w, pivot, mid + 1, right)

RECURSIVE BinaryInsertionSort(_, _)
BinaryInsertionSort(w, start) ==
    IF start >= Len(w) THEN w
    ELSE LET pivot == w[start + 1]
             left == BinarySearch(w, pivot, 0, start)
             moved == [i \in 1..Len(w) |->
                         IF i - 1 < left THEN w[i]
                         ELSE IF i - 1 = left THEN pivot
                         ELSE IF i - 1 <= start THEN w[i - 1]
                         ELSE w[i]]
         IN  BinaryInsertionSort(moved, start + 1)

\* The order in which sort leaves the positions 1..Len(dates).
ArraySort(dates) ==
    IF Len(dates) < 2 THEN [i \in 1..Len(dates) |-> i]
    ELSE LET w == [i \in 1..Len(dates) |-> <<dates[i], i>>]
             r == CountAndMakeRun(w)
             sorted == BinaryInsertionSort(r.work, r.run)
         IN  [i \in 1..Len(dates) |-> sorted[i][2]]

Permute(s, order) == [i \in 1..Len(s) |-> s[order[i]]]

\* items.sort(byDateSort), lines 98 and 159
SortItems(items) ==
    Permute(items, ArraySort([i \in 1..Len(items) |-> parseDate(items[i])]))

\* the date of a feed's first item, undefined for a feed without items
FirstItemDate(f) == IF Len(f.items) = 0 THEN Undefined ELSE parseDate(f.items[1])

\* feeds.sort((a, b) => byDateSort(a.items[0], b.items[0])), line 155
SortFeeds(fs) ==
    Permute(fs, ArraySort([i \in 1..Len(fs) |-> FirstItemDate(fs[i])]))

(***************************************************************************)
(* new URL(link) and the parts of it that build reads (lines 125-129).     *)
(***************************************************************************)
\* the first position from `from` on that holds a token of S, else Len + 1
FirstIn(link, S, from) ==
    IF \E i \in from..Len(link) : link[i] \in S
    THEN CHOOSE i \in from..Len(link) :
            link[i] \in S /\ \A j \in from..(i - 1) : link[j] \notin S
    ELSE Len(link) + 1

\* new URL(link) throws unless the text is a scheme followed by a host
IsURL(link) ==
    Len(link) >= 2 /\ link[1] = Scheme /\ link[2] \notin {"/", "?", "."}

hostname(link) == SubSeq(link, 2, FirstIn(link, {"/", "?"}, 2) - 1)

pathname(link) ==
    LET from == FirstIn(link, {"/", "?"}, 2)
        to == FirstIn(link, {"?"}, 2)
    IN  IF from = to THEN <<"/">> ELSE SubSeq(link, from, to - 1)

search(link) == SubSeq(link, FirstIn(link, {"?"}, 2), Len(link))

\* tokens[tokens.length - 2] of hostname.split('.'), << >> when undefined
SecondLevelLabel(h) ==
    LET dots == {i \in 1..Len(h) : h[i] = "."}
    IN  IF dots = {} THEN << >>
        ELSE LET last == CHOOSE i \in dots : \A j \in dots : j <= i
                 before == {i \in dots : i < last}
                 prev == IF before = {} THEN 0
                         ELSE CHOOSE i \in before : \A j \in before : j <= i
             IN  SubSeq(h, prev + 1, last - 1)

(***************************************************************************)
(* Item normalization, lines 99-131.  Each step gives the item as the step *)
(* leaves it and whether the step threw.                                   *)
(***************************************************************************)
HttpTokens == {Scheme, "http-intro"}

\* item.link.split('http').length === 1
LacksHttp(link) == \A i \in 1..Len(link) : link[i] \notin HttpTokens

\* 1. lines 101-102
NormalizeDate(item) ==
    LET dateAttr == IF item.pubDate # 0 THEN item.pubDate
                    ELSE IF item.isoDate # 0 THEN item.isoDate
                    ELSE IF item.date # 0 THEN item.date
                    ELSE item.published
    IN  [item EXCEPT !.timestamp = dateAttr]

\* 2. lines 105-111; contents.link.slice throws on an undefined feed link
AbsolutizeThrows(item, contents) ==
    item.link # NoLink /\ LacksHttp(item.link) /\ contents.link = NoLink

Absolutize(item, contents) ==
    IF item.link # NoLink /\ LacksHttp(item.link)
    THEN [item EXCEPT !.link =
            IF contents.link[Len(contents.link)] = "/" /\ item.link[1] = "/"
            THEN contents.link \o Tail(item.link)
            ELSE contents.link \o item.link]
    ELSE item

\* 3. lines 114-120; split gives one part more than there are anchors, and
\* match is called on the third and fourth part
IsSubmission(item, isRedditRSS) ==
    isRedditRSS /\ item.contentSnippet = "submitted by"

ExtractThrows(item, isRedditRSS) ==
    IsSubmission(item, isRedditRSS) /\ Len(item.content) < 3

\* line 118 has assigned the link when line 119 throws
ExtractPartly(item) ==
    IF Len(item.content) = 2 THEN [item EXCEPT !.link = item.content[2]] ELSE item

Extract(item, isRedditRSS) ==
    IF IsSubmission(item, isRedditRSS)
    THEN [item EXCEPT !.link = item.content[2], !.comments = item.content[3]]
    ELSE item

\* 4. lines 123-130
RedirectThrows(item, cfg) == cfg.hasRedirects /\ ~IsURL(item.link)

\* config.redirects is an object read from JSON: a property it does not
\* have itself is looked up in Object.prototype.  Of the names found there,
\* constructor can be a host label; its value is the function Object, which
\* the template literal of line 129 turns into its source text.
ObjectPrototype ==
    [h \in {<<"constructor">>} |-> <<"function Object() { [native code] }">>]

\* config.redirects[host], << >> when undefined
Lookup(table, host) ==
    IF host \in DOMAIN table THEN table[host]
    ELSE IF host \in DOMAIN ObjectPrototype THEN ObjectPrototype[host]
    ELSE << >>

Redirect(item, cfg) ==
    IF ~cfg.hasRedirects THEN item
    ELSE LET host == SecondLevelLabel(hostname(item.link))
             redirect == Lookup(cfg.redirects, host)
         IN  IF redirect # << >>
             THEN [item EXCEPT !.link = <<Scheme>> \o redirect
                                         \o pathname(item.link) \o search(item.link)]
             ELSE item

\* the body of the forEach callback for one item
NormalizeItem(item, contents, isRedditRSS, cfg) ==
    LET i1 == NormalizeDate(item)
    IN  IF AbsolutizeThrows(i1, contents) THEN [threw |-> TRUE, item |-> i1]
        ELSE LET i2 == Absolutize(i1, contents)
             IN  IF ExtractThrows(i2, isRedditRSS)
                 THEN [threw |-> TRUE, item |-> ExtractPartly(i2)]
                 ELSE LET i3 == Extract(i2, isRedditRSS)
                      IN  IF RedirectThrows(i3, cfg) THEN [threw |-> TRUE, item |-> i3]
                          ELSE [threw |-> FALSE, item |-> Redirect(i3, cfg)]

\* contents.items.forEach(...): items are rewritten in place, in order, until
\* one throws
RECURSIVE NormalizeFrom(_, _, _, _, _)
NormalizeFrom(items, k, contents, isRedditRSS, cfg) ==
    IF k > Len(items) THEN [threw |-> FALSE, items |-> items]
    ELSE LET r == NormalizeItem(items[k], contents, isRedditRSS, cfg)
             next == [items EXCEPT ![k] = r.item]
         IN  IF r.threw THEN [threw |-> TRUE, items |-> next]
             ELSE NormalizeFrom(next, k + 1, contents, isRedditRSS, cfg)

(***************************************************************************)
(* The try block for one fulfilled fetch, lines 69-138.  A response is     *)
(* [contentType, parses, contents]: the content-type header as its parts   *)
(* between ';' (<< >> when the header is absent), whether rss-parser       *)
(* accepts the body, and what it returns.                                  *)
(***************************************************************************)
CONTENT_TYPES ==
    {"application/json", "application/atom+xml", "application/rss+xml",
     "application/xml", "application/octet-stream", "text/xml",
     "application/x-rss+xml", "application/force-download"}

\* lines 71-74: split on a null header throws, else the check may throw
ContentTypeThrows(url, response) ==
    \/ response.contentType = << >>
    \/ response.contentType[1] \notin CONTENT_TYPES /\ ~isRSSExtension(url)

\* line 82: !contents.items.length is a boolean and never === 0
NoItemsThrows(contents) == FALSE

\* lines 86-93: the fallback chain; the fields other than link count as title
TitleOf(contents) ==
    LET t == IF contents.title # 0 THEN contents.title ELSE Len(contents.link)
    IN  IF t > 100 THEN 97 + 3 ELSE t

\* contents.title.length throws on undefined
TitleThrows(contents) == contents.title = 0 /\ contents.link = NoLink

isRedditRSS(contents) == contents.feedUrl = "reddit.com/r/"

\* what the try block leaves: the group's feeds, allItems, and whether the
\* catch clause ran
ProcessResponse(url, response, groupFeeds, items, cfg) ==
    IF \/ ContentTypeThrows(url, response)
       \/ ~response.parses
       \/ NoItemsThrows(response.contents)
       \/ TitleThrows(response.contents)
    THEN [feeds |-> groupFeeds, allItems |-> items, caught |-> TRUE]
    ELSE LET c1 == [response.contents EXCEPT
                      !.feed = url, !.title = TitleOf(response.contents)]
             sorted == SortItems(c1.items)
             r == NormalizeFrom(sorted, 1, c1, isRedditRSS(c1), cfg)
             c2 == [c1 EXCEPT !.items = r.items]
         IN  IF r.threw
             THEN [feeds |-> Append(groupFeeds, c2), allItems |-> items,
                   caught |-> TRUE]
             ELSE [feeds |-> Append(groupFeeds, c2), allItems |-> items \o c2.items,
                   caught |-> FALSE]

(***************************************************************************)
(* The inputs: registries, configurations, and what a source may answer.   *)
(***************************************************************************)
RECURSIVE Sum(_)
Sum(sizes) == IF sizes = << >> THEN 0 ELSE sizes[1] + Sum(Tail(sizes))

Shapes ==
    {sizes \in UNION {[1..n -> 0..MaxSources] : n \in 0..MaxGroups} :
        Sum(sizes) <= MaxTotalSources}

\* the registry with groups of the given sizes; e is the id of the one URL
\* that ends in a feed extension (0 for none)
Registry(sizes, e) ==
    [g \in 1..Len(sizes) |->
        [k \in 1..sizes[g] |->
            LET id == Sum(SubSeq(sizes, 1, g - 1)) + k IN Url(id, id = e)]]

Registries == {Registry(sizes, e) : sizes \in Shapes, e \in 0..1}

NoRedirects == [hasRedirects |-> FALSE, redirects |-> << >>]

RedditRedirects ==
    [hasRedirects |-> TRUE, redirects |-> [h \in {<<"reddit">>} |-> OldRedditHost]]

Configs == {NoRedirects, RedditRedirects}

ArticleLink == ExampleSite \o PostPath

DatedItems(u, dates) ==
    [k \in 1..Len(dates) |-> RawItem(u, k, dates[k], ArticleLink)]

RegularItemSeqs(u) ==
    {DatedItems(u, dates) : dates \in UNION {[1..n -> 0..MaxDate] : n \in 0..MaxItems}}

OddItemSeqs(u) ==
    {its \in {<<RawItem(u, 1, 1, NoLink)>>,
              <<RawItem(u, 1, 1, PostPath)>>,
              <<RawItem(u, 1, 1, <<"/", "http-intro">>)>>,
              <<RawItem(u, 1, MaxDate, ArticleLink), RawItem(u, 2, 1, NoLink)>>,
              <<DateItem(u, 1, 1, ArticleLink)>>,
              <<RawItem(u, 1, 1, ConstructorSite \o PostPath)>>,
              <<RawItem(u, 1, 1, RedditSite \o PostPath \o SortQuery)>>,
              <<RawItem(u, 1, 1, RedditSite)>>,
              <<RawItem(u, 1, 1, ArticleLink),
                PublishedItem(u, 2, MaxDate, ArticleLink)>>} :
        Len(its) <= MaxItems}

Anchor(p) == RedditSite \o <<"/", p>>

FeedPool(u) ==
    {RawFeed(TitleLen, ExampleSite, "", its) :
        its \in RegularItemSeqs(u) \cup OddItemSeqs(u)}
    \cup
    {RawFeed(TitleLen, ExampleSite \o <<"/">>, "", <<RawItem(u, 1, 1, PostPath)>>),
     RawFeed(0, ExampleSite, "", DatedItems(u, <<1>>)),
     RawFeed(0, NoLink, "", DatedItems(u, <<1>>)),
     RawFeed(TitleLen, NoLink, "", DatedItems(u, <<1>>)),
     RawFeed(TitleLen, NoLink, "", <<RawItem(u, 1, 1, PostPath)>>),
     RawFeed(LongTitleLen, ExampleSite, "", DatedItems(u, <<1>>)),
     RawFeed(TitleLen, RedditSite, "reddit.com/r/",
             <<RedditItem(u, 1, 1, <<Anchor("user"), Anchor("link"), Anchor("comments")>>)>>),
     RawFeed(TitleLen, RedditSite, "reddit.com/r/",
             <<RedditItem(u, 1, 1, <<Anchor("user")>>)>>)}

PlainFeed(u) == RawFeed(TitleLen, ExampleSite, "", DatedItems(u, <<1>>))

Response(ct, ok, c) == [contentType |-> ct, parses |-> ok, contents |-> c]

NoResponse == Response(<< >>, FALSE, RawFeed(0, NoLink, "", << >>))

Failures(u) ==
    {Response(<<"text/html">>, TRUE, PlainFeed(u)),
     Response(<<"text/xml">>, FALSE, NoResponse.contents)}

\* the first source of the registry answers with any feed of the pool, the
\* other sources with a plain feed of at most one item
Responses(u) ==
    IF u.id = 1
    THEN {Response(<<"application/xml">>, TRUE, c) : c \in FeedPool(u)}
         \cup Failures(u)
         \cup {Response(<<"application/rss+xml", "charset=utf-8">>, TRUE, PlainFeed(u)),
               Response(<< >>, TRUE, PlainFeed(u))}
    ELSE {Response(<<"application/xml">>, TRUE, RawFeed(TitleLen, ExampleSite, "", its)) :
            its \in {r \in RegularItemSeqs(u) : Len(r) <= 1}}
         \cup Failures(u)

(***************************************************************************)
(* The module's constants, lines 14-36.                                    *)
(***************************************************************************)
WRITE == argv.write

\* a cache switch that --write does not turn off
USE_CACHE_Cached == argv.cached

USE_CACHE == ~WRITE /\ argv.cached

Flags == [write : BOOLEAN, cached : BOOLEAN]

NoFile == [exists |-> FALSE, groups |-> << >>, allItems |-> << >>]

EmptyObject == [exists |-> FALSE, groups |-> << >>, allItems |-> << >>]

\* readCfg, lines 192-210: a missing file reads as the empty object
readCfg(file) == IF file.exists THEN file ELSE EmptyObject

\* a missing feeds file reads as the registry without groups
feeds == IF USE_CACHE THEN << >> ELSE feedsFile

cache == IF USE_CACHE THEN readCfg(cacheFile) ELSE EmptyObject

\* JSON.stringify({ groups, allItems }) as written to the cache file.  What
\* build puts in groups and allItems are texts and numbers in arrays and
\* objects, without undefined properties, which JSON.parse gives back equal
\* by value; the file holds copies, so that the later sorts do not reach it.
Snapshot(groups, items) == [exists |-> TRUE, groups |-> groups, allItems |-> items]

(***************************************************************************)
(* The state when build reaches its loop over the groups (lines 41-46).    *)
(***************************************************************************)
UrlIds(registry) == 1..Sum([g \in 1..Len(registry) |-> Len(registry[g])])

Unfetched == [status |-> "unfetched", response |-> NoResponse]

NotHanded == [given |-> FALSE, allItems |-> << >>, groups |-> << >>, errors |-> << >>]

IsLive(flags) == flags.write \/ ~flags.cached

\* line 36 calls readCfg on the cache file in cache mode only; nothing is
\* fetched or written before the loop
NoCalls ==
    [fetched |-> [id \in UrlIds(feedsFile) |-> 0], inflight |-> {},
     cacheReads |-> IF USE_CACHE THEN 1 ELSE 0, cacheWrites |-> 0]

LiveRuns == Cardinality({i \in 1..Len(history) : IsLive(history[i].argv)})

\* a build that starts from no items whatever the cache holds
CachedItems_Empty(c) == << >>

\* cache.allItems || []
CachedItems(c) == IF c.exists THEN c.allItems ELSE << >>

BuildEntry ==
    /\ allItems = CachedItems(cache)
    /\ errors = << >>
    /\ groupContents = << >>
    /\ pc = "loop"
    /\ groupIdx = 1
    /\ results = << >>
    /\ resultIdx = 1
    /\ handed = NotHanded
    /\ outfile = FALSE
    /\ world = [id \in UrlIds(feedsFile) |-> Unfetched]
    /\ io = NoCalls

Init ==
    /\ argv \in {f \in Flags : IsLive(f) => MaxLiveRuns > 0}
    /\ config \in Configs
    /\ feedsFile \in Registries
    /\ cacheFile = NoFile
    /\ history = << >>
    /\ BuildEntry

(***************************************************************************)
(* Lines 46-57: the next group's fetches are launched together and build   *)
(* waits for all of them.                                                  *)
(***************************************************************************)
LaunchGroup ==
    /\ pc = "loop"
    /\ groupIdx <= Len(feeds)
    /\ groupContents' = Append(groupContents, <<groupIdx, << >> >>)
    /\ results' = [k \in 1..Len(feeds[groupIdx]) |-> "pending"]
    /\ resultIdx' = 1
    /\ pc' = "await"
    /\ io' = [io EXCEPT
                !.fetched = [id \in DOMAIN io.fetched |->
                    io.fetched[id] + Cardinality({k \in 1..Len(feeds[groupIdx]) :
                                                    feeds[groupIdx][k].id = id})],
                !.inflight = io.inflight \cup
                    {feeds[groupIdx][k].id : k \in 1..Len(feeds[groupIdx])}]
    /\ UNCHANGED <<argv, config, feedsFile, cacheFile, outfile, allItems, errors,
                   groupIdx, handed, world, history>>

\* a fetch settles: fulfilled with a response, or rejected
FetchSettle(k) ==
    /\ pc = "await"
    /\ k \in DOMAIN results
    /\ results[k] = "pending"
    /\ \E outcome \in {"fulfilled", "rejected"} :
          results' = [results EXCEPT ![k] = outcome]
    /\ io' = [io EXCEPT !.inflight = io.inflight \ {feeds[groupIdx][k].id}]
    /\ UNCHANGED <<argv, config, feedsFile, cacheFile, outfile, allItems, errors,
                   groupContents, pc, groupIdx, resultIdx, handed, world, history>>

\* a loop over the results that does not wait for the fetches to settle
AllSettled_NoJoin == TRUE

\* await Promise.allSettled(...), lines 49-57
AllSettled == \A k \in DOMAIN results : results[k] # "pending"

\* a catch clause that logs the error and does not record the URL
Catch_LogOnly(errs, url) == errs

\* lines 135-138: the catch clause records the URL
Catch(errs, url) == Append(errs, url)

\* a loop over the results that leaves for the next group after one result
Advance_LeaveEarly ==
    pc' = "loop" /\ groupIdx' = groupIdx + 1 /\ resultIdx' = 1

\* the step of the loops once the body for the current result is done
Advance ==
    IF resultIdx >= Len(results)
    THEN pc' = "loop" /\ groupIdx' = groupIdx + 1 /\ resultIdx' = 1
    ELSE pc' = "await" /\ groupIdx' = groupIdx /\ resultIdx' = resultIdx + 1

SetFeeds(gc, g, fs) == [gc EXCEPT ![g] = <<gc[g][1], fs>>]

\* lines 59-65: a rejected fetch
ProcessRejected ==
    /\ pc = "await" /\ AllSettled
    /\ resultIdx <= Len(results)
    /\ results[resultIdx] = "rejected"
    /\ LET url == feeds[groupIdx][resultIdx]
       IN  /\ errors' = Append(errors, url)
           /\ world' = [world EXCEPT ![url.id] =
                          [status |-> "rejected", response |-> NoResponse]]
    /\ Advance
    /\ UNCHANGED <<argv, config, feedsFile, cacheFile, outfile, allItems,
                   groupContents, results, handed, history, io>>

\* lines 67-138: a fulfilled fetch
ProcessFulfilled ==
    /\ pc = "await" /\ AllSettled
    /\ resultIdx <= Len(results)
    /\ results[resultIdx] = "fulfilled"
    /\ LET url == feeds[groupIdx][resultIdx]
       IN  \E response \in Responses(url) :
              LET r == ProcessResponse(url, response,
                                       groupContents[groupIdx][2], allItems, config)
              IN  /\ groupContents' = SetFeeds(groupContents, groupIdx, r.feeds)
                  /\ allItems' = r.allItems
                  /\ errors' = IF r.caught THEN Catch(errors, url) ELSE errors
                  /\ world' = [world EXCEPT ![url.id] =
                                 [status |-> "fulfilled", response |-> response]]
    /\ Advance
    /\ UNCHANGED <<argv, config, feedsFile, cacheFile, outfile, results, handed,
                   history, io>>

\* a group without sources: allSettled of no promises, no results
SkipEmptyGroup ==
    /\ pc = "await" /\ Len(results) = 0
    /\ Advance
    /\ UNCHANGED <<argv, config, feedsFile, cacheFile, outfile, allItems, errors,
                   groupContents, results, handed, world, history, io>>

(***************************************************************************)
(* Lines 142-162: the groups, the cache file, the sorts, and the call of   *)
(* template.                                                               *)
(***************************************************************************)
\* cache.groups || Object.entries(groupContents)
GroupsOf(c, gc) == IF c.exists THEN c.groups ELSE gc

\* lines 154-156
SortGroups(groups) ==
    [g \in 1..Len(groups) |-> <<groups[g][1], SortFeeds(groups[g][2])>>]

\* lines 144-150
WriteCache(file, groups, items) ==
    IF WRITE THEN Snapshot(groups, items) ELSE file

Aggregate ==
    /\ pc = "loop"
    /\ groupIdx > Len(feeds)
    /\ LET groups == GroupsOf(cache, groupContents)
           sortedGroups == SortGroups(groups)
           sortedItems == SortItems(allItems)
           given == [given |-> TRUE, allItems |-> sortedItems,
                     groups |-> sortedGroups, errors |-> errors]
       IN  /\ cacheFile' = WriteCache(cacheFile, groups, allItems)
           /\ allItems' = sortedItems
           /\ groupContents' = IF cache.exists THEN groupContents ELSE sortedGroups
           /\ handed' = given
           /\ history' = Append(history, [argv |-> argv, handed |-> given])
    /\ io' = [io EXCEPT !.cacheWrites = io.cacheWrites + IF WRITE THEN 1 ELSE 0]
    /\ pc' = "render"
    /\ UNCHANGED <<argv, config, feedsFile, outfile, errors, groupIdx, results,
                   resultIdx, world>>

(***************************************************************************)
(* template (src/src/template.js) throws where it reads a property of      *)
(* undefined or builds a URL from a text that is none.                     *)
(***************************************************************************)
TemplateThrows(groups) ==
    \/ groups = << >>
    \/ \E g \in 1..Len(groups) :
          \/ Len(groups[g][2]) = 0
          \/ \E f \in 1..Len(groups[g][2]) :
                \/ Len(groups[g][2][f].items) = 0
                \/ ~IsURL(groups[g][2][f].link)

\* lines 162-165
Render ==
    /\ pc = "render"
    /\ IF TemplateThrows(handed.groups)
       THEN pc' = "crashed" /\ outfile' = FALSE
       ELSE pc' = "done" /\ outfile' = TRUE
    /\ UNCHANGED <<argv, config, feedsFile, cacheFile, allItems, errors,
                   groupContents, groupIdx, results, resultIdx, handed, world,
                   history, io>>

\* the command is run again; the files stay as the runs left them
Restart ==
    /\ pc \in {"done", "crashed"}
    /\ Len(history) < MaxRuns
    /\ \E flags \in Flags :
          /\ IsLive(flags) => LiveRuns < MaxLiveRuns
          /\ argv' = flags
    /\ UNCHANGED <<config, feedsFile, cacheFile, history>>
    /\ allItems' = CachedItems(cache')
    /\ errors' = << >>
    /\ groupContents' = << >>
    /\ pc' = "loop"
    /\ groupIdx' = 1
    /\ results' = << >>
    /\ resultIdx' = 1
    /\ handed' = NotHanded
    /\ outfile' = FALSE
    /\ world' = [id \in UrlIds(feedsFile) |-> Unfetched]
    /\ io' = NoCalls'

Next ==
    \/ LaunchGroup
    \/ \E k \in 1..MaxSources : FetchSettle(k)
    \/ ProcessRejected
    \/ ProcessFulfilled
    \/ SkipEmptyGroup
    \/ Aggregate
    \/ Render
    \/ Restart

Spec == Init /\ [][Next]_vars

(***************************************************************************)
(* What the claims speak of.                                               *)
(***************************************************************************)
Terminal == {"done", "crashed"}

\* the sources of the running build, group by group
Sources(g) == {feeds[g][k] : k \in 1..Len(feeds[g])}

AllSources == UNION {Sources(g) : g \in 1..Len(feeds)}

NetworkError(u) == world[u.id].status = "rejected"

Fulfilled(u) == world[u.id].status = "fulfilled"

BadContentType(u) ==
    Fulfilled(u) /\ ContentTypeThrows(u, world[u.id].response)

\* a feed document with a title, a site link, and items whose links are URLs
WellFormed(c) ==
    /\ c.title # 0
    /\ IsURL(c.link)
    /\ \A k \in 1..Len(c.items) :
          /\ IsURL(c.items[k].link)
          /\ c.items[k].contentSnippet = "plain"

ValidFeed(u) ==
    /\ Fulfilled(u)
    /\ ~ContentTypeThrows(u, world[u.id].response)
    /\ world[u.id].response.parses
    /\ WellFormed(world[u.id].response.contents)
    /\ Len(world[u.id].response.contents.items) > 0

EmptyFeed(u) ==
    /\ Fulfilled(u)
    /\ ~ContentTypeThrows(u, world[u.id].response)
    /\ world[u.id].response.parses
    /\ Len(world[u.id].response.contents.items) = 0

InErrors(u) == \E k \in 1..Len(errors) : errors[k] = u

TimesInErrors(u) == Cardinality({k \in 1..Len(errors) : errors[k] = u})

\* the positions <<g, f>> of the feeds of a groups value
FeedPositions(groups) ==
    {<<g, f>> \in (1..Len(groups)) \X (1..MaxTotalSources) : f <= Len(groups[g][2])}

FeedsOf(groups, u) ==
    {p \in FeedPositions(groups) : groups[p[1]][2][p[2]].feed = u}

\* the items of url u in a sequence of items
ItemsOf(items, u) == {k \in 1..Len(items) : items[k].src = u}

\* how often an item occurs in a sequence, and in the feeds of groups
Occurs(items, it) == Cardinality({k \in 1..Len(items) : items[k] = it})

OccursInGroups(groups, it) ==
    LET RECURSIVE Total(_)
        Total(ps) ==
            IF ps = {} THEN 0
            ELSE LET p == CHOOSE q \in ps : TRUE
                 IN  Occurs(groups[p[1]][2][p[2]].items, it) + Total(ps \ {p})
    IN  Total(FeedPositions(groups))

ItemsInGroups(groups) ==
    UNION {{groups[p[1]][2][p[2]].items[k] :
               k \in 1..Len(groups[p[1]][2][p[2]].items)} :
           p \in FeedPositions(groups)}

\* the date the normalizer chose for an item (line 101), 0 when it has none
DateOf(item) ==
    IF item.pubDate # 0 THEN item.pubDate
    ELSE IF item.isoDate # 0 THEN item.isoDate
    ELSE IF item.date # 0 THEN item.date
    ELSE item.published

Live == ~USE_CACHE

\* a live run has gone through all its groups and called template
LiveResult == Live /\ handed.given

(***************************************************************************)
(* C1: at the end of a live run, no source whose URL is in errors has a    *)
(* feed in a group or an item in allItems.                                 *)
(***************************************************************************)
C1_AllOrNothing ==
    LiveResult =>
        \A u \in AllSources :
            InErrors(u) =>
                /\ FeedsOf(handed.groups, u) = {}
                /\ ItemsOf(handed.allItems, u) = {}

(***************************************************************************)
(* C2: in a live run whose groups each have sources that reject, answer    *)
(* with an unacceptable content-type or return a valid feed, at least one  *)
(* of them valid, errors holds exactly the failing URLs, each once, groups *)
(* and allItems hold exactly the feeds and items of the valid sources, and *)
(* the build completes: it does not crash, and it ends with the output     *)
(* written.                                                                *)
(***************************************************************************)
MixedGroup(g) ==
    /\ \A u \in Sources(g) : NetworkError(u) \/ BadContentType(u) \/ ValidFeed(u)
    /\ \E u \in Sources(g) : ValidFeed(u)

MixedRun == Len(feeds) > 0 /\ \A g \in 1..Len(feeds) : MixedGroup(g)

C2_PartialFailure ==
    /\ LiveResult =>
          \A g \in 1..Len(feeds) :
              MixedGroup(g) =>
                  /\ Len(handed.groups[g][2]) =
                        Cardinality({u \in Sources(g) : ValidFeed(u)})
                  /\ \A u \in Sources(g) :
                        /\ TimesInErrors(u) = IF ValidFeed(u) THEN 0 ELSE 1
                        /\ Cardinality(FeedsOf(handed.groups, u)) =
                              IF ValidFeed(u) THEN 1 ELSE 0
                        /\ Cardinality(ItemsOf(handed.allItems, u)) =
                              IF ValidFeed(u)
                              THEN Len(world[u.id].response.contents.items)
                              ELSE 0
    /\ (LiveResult /\ MixedRun) =>
          /\ Len(handed.errors) =
                Cardinality({u \in AllSources : ~ValidFeed(u)})
          /\ pc # "crashed"
          /\ pc = "done" => outfile

\* a group of three: one rejects, one has a bad content-type, one is valid
C2_Witness ==
    /\ pc = "done" /\ Live /\ MixedRun
    /\ \E g \in 1..Len(feeds) :
          /\ \E u \in Sources(g) : NetworkError(u)
          /\ \E u \in Sources(g) : BadContentType(u)
          /\ \E u \in Sources(g) : ValidFeed(u)

(***************************************************************************)
(* C3: whatever the sources of a live run answer, failures included, the   *)
(* build ends by handing its result to template and writing the output.    *)
(* The sources considered either fail (their URL is in errors) or return a *)
(* valid feed, and every group has a source.                               *)
(***************************************************************************)
OnlySourceFailures ==
    /\ Len(feeds) > 0
    /\ \A g \in 1..Len(feeds) : Sources(g) # {}
    /\ \A u \in AllSources : InErrors(u) \/ ValidFeed(u)

C3_NeverFatal ==
    (Live /\ pc \in Terminal /\ OnlySourceFailures) =>
        (pc = "done" /\ handed.given /\ outfile)

\* every source of the live run returned a valid feed
AllValid == \A u \in AllSources : ValidFeed(u)

(***************************************************************************)
(* C4: in the allItems handed to template, of two items with a date the    *)
(* earlier in the sequence has the later or the same date.  Stated for the *)
(* live runs in which every source returned a valid feed, so that nothing  *)
(* but the order is in question.                                           *)
(***************************************************************************)
C4_GlobalOrder ==
    (LiveResult /\ AllValid) =>
        \A i, j \in 1..Len(handed.allItems) :
            (i < j /\ DateOf(handed.allItems[i]) # 0 /\ DateOf(handed.allItems[j]) # 0)
                => DateOf(handed.allItems[i]) >= DateOf(handed.allItems[j])

(***************************************************************************)
(* C5: a source whose body parses into a feed without items is put in      *)
(* errors, and no feed of it is added to its group.                        *)
(***************************************************************************)
C5_EmptyFeedFails ==
    \A u \in AllSources :
        EmptyFeed(u) => (InErrors(u) /\ FeedsOf(groupContents, u) = {})

(***************************************************************************)
(* C6: at the end of a live run allItems holds the items of the feeds in   *)
(* groups, each as often as the feeds hold it, and nothing else.           *)
(***************************************************************************)
C6_MergeComplete ==
    LiveResult =>
        \A it \in ItemsInGroups(handed.groups) \cup
                  {handed.allItems[k] : k \in 1..Len(handed.allItems)} :
            Occurs(handed.allItems, it) = OccursInGroups(handed.groups, it)

(***************************************************************************)
(* C7: in every group handed to template, of two feeds whose first items   *)
(* have a date the earlier in the group has the later or the same date.    *)
(* Stated for the live runs in which every source returned a valid feed.   *)
(***************************************************************************)
FirstDate(f) == IF Len(f.items) = 0 THEN 0 ELSE DateOf(f.items[1])

C7_FeedOrder ==
    (LiveResult /\ AllValid) =>
        \A g \in 1..Len(handed.groups) :
            \A i, j \in 1..Len(handed.groups[g][2]) :
                (/\ i < j
                 /\ FirstDate(handed.groups[g][2][i]) # 0
                 /\ FirstDate(handed.groups[g][2][j]) # 0)
                    => FirstDate(handed.groups[g][2][i]) >=
                          FirstDate(handed.groups[g][2][j])

(***************************************************************************)
(* C8: a cache-mode run that follows a write-mode run, with no write in    *)
(* between, hands template the allItems and the groups that the write-mode *)
(* run handed to it, and no errors.                                        *)
(***************************************************************************)
IsCached(flags) == ~flags.write /\ flags.cached

C8_CacheRoundTrip ==
    \A i, j \in 1..Len(history) :
        (/\ i < j
         /\ history[i].argv.write
         /\ IsCached(history[j].argv)
         /\ \A k \in (i + 1)..(j - 1) : ~history[k].argv.write)
            => /\ history[j].handed.allItems = history[i].handed.allItems
               /\ history[j].handed.groups = history[i].handed.groups
               /\ history[j].handed.errors = << >>

\* the write-mode run handed over items in another order than it fetched them
C8_Witness ==
    /\ Len(history) = 2
    /\ history[1].argv.write
    /\ IsCached(history[2].argv)
    /\ Len(history[2].handed.allItems) >= 2
    /\ history[2].handed.allItems # cacheFile.allItems
    /\ history[2].handed.groups # cacheFile.groups

(***************************************************************************)
(* C9: the snapshot a write-mode run leaves in the cache file holds the    *)
(* allItems and the groups that the run hands to template, in the order in *)
(* which it hands them.  Stated for the runs in which every source         *)
(* returned a valid feed.                                                  *)
(***************************************************************************)
C9_SnapshotIsFinal ==
    (WRITE /\ handed.given /\ AllValid) =>
        /\ cacheFile.allItems = handed.allItems
        /\ cacheFile.groups = handed.groups

(***************************************************************************)
(* C10: a cache-mode run that finds no cache file ends with the output     *)
(* written, having handed template no groups, no items and no errors.      *)
(***************************************************************************)
C10_CacheModeNoSnapshot ==
    (USE_CACHE /\ ~cacheFile.exists /\ pc \in Terminal) =>
        /\ pc = "done" /\ outfile
        /\ handed.groups = << >>
        /\ handed.allItems = << >>
        /\ handed.errors = << >>

(***************************************************************************)
(* C11: a fetched response is accepted if and only if the first part of    *)
(* its content-type header is in the allow-list or the URL ends in a feed  *)
(* extension, whatever the header is, absent included; every other         *)
(* response is rejected with its URL in errors.  Acceptance is read off    *)
(* the responses whose body is a well-formed feed with items: accepted,    *)
(* their feed is in the group and their URL is not in errors.              *)
(***************************************************************************)
InAllowList(response) ==
    response.contentType # << >> /\ response.contentType[1] \in CONTENT_TYPES

C11_ContentType ==
    \A u \in AllSources :
        Fulfilled(u) =>
            LET r == world[u.id].response
                acceptable == InAllowList(r) \/ isRSSExtension(u)
            IN  /\ ~acceptable =>
                      (InErrors(u) /\ FeedsOf(groupContents, u) = {})
                /\ (/\ acceptable
                    /\ r.parses
                    /\ WellFormed(r.contents)
                    /\ Len(r.contents.items) > 0) =>
                      (~InErrors(u) /\ FeedsOf(groupContents, u) # {})

(***************************************************************************)
(* C12: the sorts keep the items without a date in their order.  When      *)
(* build sorts allItems (line 159), the items for which parseDate gives    *)
(* undefined are the same sequence before and after; and in every feed of  *)
(* a group the undated items stand in the order in which the response had  *)
(* them before the sort of line 98.  An item is named by its source and    *)
(* its position in the response, which normalization leaves alone.         *)
(***************************************************************************)
Undated(item) == parseDate(item) = Undefined

UndatedOrder(items) ==
    LET s == SelectSeq(items, Undated)
    IN  [k \in 1..Len(s) |-> <<s[k].src, s[k].n>>]

SortIdempotent ==
    /\ SortItems(SortItems(allItems)) = SortItems(allItems)
    /\ SortGroups(SortGroups(groupContents)) = SortGroups(groupContents)
    /\ SortItems(SortItems(cacheFile.allItems)) = SortItems(cacheFile.allItems)
    /\ SortGroups(SortGroups(cacheFile.groups)) = SortGroups(cacheFile.groups)

C13_SortIdempotence ==
    /\ SortIdempotent
    /\ (USE_CACHE /\ cacheFile.exists /\ handed.given) =>
          /\ handed.allItems = cacheFile.allItems
          /\ handed.groups = cacheFile.groups

(***************************************************************************)
(* C14: in every run exactly one of cache mode, write mode and live-only   *)
(* mode applies.  A cache-mode run calls no fetch and does not write the   *)
(* cache file; a write-mode run, --cached given with --write or not, does  *)
(* not read the cache file, starts from no items, and has written the      *)
(* file exactly once when it hands over to template, never before and not  *)
(* again; a live-only run neither reads nor writes the file.               *)
(***************************************************************************)
CacheMode == USE_CACHE

WriteMode == WRITE

LiveOnlyMode == ~argv.write /\ ~argv.cached

NoFetch ==
    /\ \A id \in DOMAIN io.fetched : io.fetched[id] = 0
    /\ io.inflight = {}
    /\ results = << >>
    /\ \A id \in DOMAIN world : world[id].status = "unfetched"

C14_ModeExclusivity ==
    /\ Cardinality({m \in {"cache", "write", "live-only"} :
                       \/ m = "cache" /\ CacheMode
                       \/ m = "write" /\ WriteMode
                       \/ m = "live-only" /\ LiveOnlyMode}) = 1
    /\ CacheMode => (NoFetch /\ io.cacheWrites = 0)
    /\ WriteMode =>
          /\ io.cacheReads = 0
          /\ cache = EmptyObject
          /\ io.cacheWrites = IF handed.given THEN 1 ELSE 0
          /\ handed.given => cacheFile.exists
    /\ LiveOnlyMode => (io.cacheReads = 0 /\ io.cacheWrites = 0)

\* a run with both flags has fetched, written the cache file and finished
C14_Witness ==
    /\ argv.write /\ argv.cached
    /\ pc = "done"
    /\ io.cacheWrites = 1
    /\ \E id \in DOMAIN io.fetched : io.fetched[id] = 1

(***************************************************************************)
(* C15: the sort of allItems orders the items by the date the normalizer   *)
(* chose for them, the first present of pubDate, isoDate, date, published. *)
(* In a live run in which every source returned a valid feed and every     *)
(* item has one of the four fields, of two items handed to template the    *)
(* earlier in the sequence has the later or the same date.                 *)
(***************************************************************************)
AllDated(items) == \A k \in 1..Len(items) : DateOf(items[k]) # 0

C15_SortKey ==
    (LiveResult /\ AllValid /\ AllDated(handed.allItems)) =>
        \A i, j \in 1..Len(handed.allItems) :
            i < j => DateOf(handed.allItems[i]) >= DateOf(handed.allItems[j])

(***************************************************************************)
(* C16: errors, the per-group accumulator and allItems change only in      *)
(* steps of build that start with no fetch in flight: every fetch the      *)
(* pass has launched has settled before one of the three is written.       *)
(***************************************************************************)
InFlight == {k \in DOMAIN results : results[k] = "pending"}

C16_NoConcurrentMutation ==
    [][(\/ errors' # errors
        \/ groupContents' # groupContents
        \/ allItems' # allItems) =>
            (InFlight = {} /\ io.inflight = {})]_vars

\* the first of a pass of three fetches was put in errors, the others wait
\* to be looked at
C16_Witness ==
    /\ pc = "await"
    /\ Len(results) = 3
    /\ resultIdx = 2
    /\ Len(errors) = 1
    /\ InFlight = {}

(***************************************************************************)
(* C17: every item in allItems has an absolute link, one that begins with  *)
(* a URL scheme, whatever link the response gave it (none, or a relative   *)
(* one with 'http' in its path) and whether redirects are configured or    *)
(* not.                                                                    *)
(***************************************************************************)
IsAbsolute(link) == link # NoLink /\ link[1] = Scheme

C17_LinkAbsolute ==
    \A k \in 1..Len(allItems) : IsAbsolute(allItems[k].link)

(***************************************************************************)
(* C18: with a redirect table configured, an item whose absolutized link   *)
(* has a hostname whose second-to-last label is a key of the table ends    *)
(* with the table's replacement as hostname and the path and the query of  *)
(* the absolutized link; an item whose label is no key of the table ends   *)
(* with the absolutized link itself.  Stated for the items of a live run   *)
(* that the extraction of lines 114-120 leaves alone, for which the link   *)
(* the redirect step reads is the absolutized link.                        *)
(***************************************************************************)
\* the item as the response had it, and its link after lines 105-111
Original(item) == world[item.src.id].response.contents.items[item.n]

Absolutized(item) ==
    Absolutize(Original(item), world[item.src.id].response.contents).link

C18_RedirectResolution ==
    (Live /\ config.hasRedirects) =>
        \A k \in 1..Len(allItems) :
            LET item == allItems[k]
                before == Absolutized(item)
                label == SecondLevelLabel(hostname(before))
            IN  item.contentSnippet = "plain" =>
                    IF label \in DOMAIN config.redirects
                    THEN /\ hostname(item.link) = config.redirects[label]
                         /\ pathname(item.link) = pathname(before)
                         /\ search(item.link) = search(before)
                    ELSE item.link = before

(***************************************************************************)
(* C19: in a live run fetch is called at most once for a source, and once  *)
(* for every source when build hands over to template; the fetches in      *)
(* flight belong to one group; and when build launches the fetches of a    *)
(* group, no fetch is in flight and every source of the groups before it   *)
(* has been looked at in the loop over the results.                        *)
(***************************************************************************)
Ids(g) == {u.id : u \in Sources(g)}

Processed(id) == world[id].status # "unfetched"

Launches == \E id \in DOMAIN io.fetched : io.fetched'[id] > io.fetched[id]

OncePerRun ==
    /\ \A id \in DOMAIN io.fetched : io.fetched[id] <= 1
    /\ LiveResult =>
          \A g \in 1..Len(feeds) : \A id \in Ids(g) : io.fetched[id] = 1

OneGroupInFlight ==
    io.inflight = {} \/ \E g \in 1..Len(feeds) : io.inflight \subseteq Ids(g)

C19_GroupSequential ==
    [][/\ OncePerRun'
       /\ OneGroupInFlight'
       /\ Launches =>
             /\ io.inflight = {}
             /\ \A g \in 1..(groupIdx - 1) : \A id \in Ids(g) : Processed(id)
             /\ io.inflight' = Ids(groupIdx)]_vars

\* the fetches of the second group are in flight after a first group of
\* two sources
C19_Witness ==
    /\ pc = "await"
    /\ groupIdx = 2
    /\ io.inflight # {}
    /\ Len(feeds[1]) >= 2
    /\ \A id \in Ids(1) : Processed(id) /\ io.fetched[id] = 1

====
